---- MODULE Spec2Model ----
(***************************************************************************)
(* NAR / NAR-TRG nomogram calculator (src/main_app.py).                    *)
(*                                                                         *)
(* Numbers.  The program computes in binary floating point.  The model     *)
(* uses two exact or fixed-point integer representations:                  *)
(*   - a NAR score is an integer count of 1/(961*1000): in that unit both  *)
(*     numerator^2 / 9.61 (= numerator^2 * 100000) and every score given   *)
(*     in thousandths (= thousandths * 961) are exact, and so are the      *)
(*     thresholds 8.0 and 16.0.  No integer numerator^2 lies within 0.1    *)
(*     of 76.88 or 153.76, so float rounding cannot move a pipeline score  *)
(*     across a threshold;                                                 *)
(*   - the Cox quantities (coefficients, linear predictor, points,         *)
(*     survival) are fixed point with 1.0 = Scale, products and quotients  *)
(*     rounded down; math.exp and ** are computed by their power series.   *)
(***************************************************************************)
EXTENDS Integers, Sequences, FiniteSets, TLC

\* ----------------------------------------------------------------- bounds
\* Scores handed to classify_nar directly: 0 .. MaxMilli thousandths.
MaxMilli == 17000
\* Grades handed to classify_trg directly: -MaxGrade .. MaxGrade.
MaxGrade == 7
\* Composite scores handed to compute_cox_points_survival directly:
\* -MaxComposite .. MaxComposite.
MaxComposite == 5
\* CA19-9 values typed into the number input: 0 .. MaxCa19 U/ml.
MaxCa19 == 37
\* Terms of the power series of math.exp and of the logarithm in **.
ExpTerms == 20
LnTerms == 8

\* ------------------------------------------------------------ fixed point
Scale == 10^4

Hundredths(h) == h * (Scale \div 100)

\* floor(a * b / Scale), split so that no intermediate leaves 32 bits.
MulFix(a, b) ==
    (a \div Scale) * b + (a % Scale) * (b \div Scale)
        + ((a % Scale) * (b % Scale)) \div Scale

\* floor(a * Scale / b) for b > 0.
DivFix(a, b) == (a \div b) * Scale + ((a % b) * Scale) \div b

RECURSIVE ExpSeries(_, _, _, _)
ExpSeries(x, n, term, acc) ==
    IF n > ExpTerms THEN acc
    ELSE LET t == MulFix(term, x) \div n
         IN  ExpSeries(x, n + 1, t, acc + t)

\* math.exp(x)
ExpFix(x) ==
    IF x >= 0 THEN ExpSeries(x, 1, Scale, Scale)
    ELSE DivFix(Scale, ExpSeries(-x, 1, Scale, Scale))

RECURSIVE LnSeries(_, _, _, _)
LnSeries(u, n, pw, acc) ==
    IF n > LnTerms THEN acc
    ELSE LET p == MulFix(pw, u)
         IN  LnSeries(u, n + 1, p, acc + p \div n)

\* log(b) for 0 < b <= 1.0
LnFix(b) == -LnSeries(Scale - b, 1, Scale, 0)

\* Mutant: the baseline survival multiplied by exp(LP_rel), not raised to it.
PowFix_times(b, y) == MulFix(b, y)

\* b ** y for 0 < b <= 1.0
PowFix(b, y) == ExpFix(MulFix(y, LnFix(b)))

\* ------------------------------------------------------------- NAR scores
\* 9.61 in hundredths.
NAR_DIVISOR == 961
\* One NAR score unit is 1 / NarUnit.
NarUnit == NAR_DIVISOR * 1000

\* The float with the decimal value thousandths / 1000.
Milli(thousandths) == thousandths * NAR_DIVISOR

\* Mutant: the downstaging term added instead of subtracted.
calculate_nar_plus(cT, pT, pN) ==
    LET numerator == 5 * pN + 3 * (cT - pT) + 12
    IN  (numerator * numerator) * ((100 * NarUnit) \div NAR_DIVISOR)

calculate_nar(cT, pT, pN) ==
    LET numerator == 5 * pN - 3 * (cT - pT) + 12
    IN  (numerator * numerator) * ((100 * NarUnit) \div NAR_DIVISOR)

\* Mutant: the lower boundary moved, 8.0 itself Low.
classify_nar_inclusive(nar_value) ==
    IF nar_value <= 8 * NarUnit THEN "NARlow"
    ELSE IF nar_value > 16 * NarUnit THEN "NARhigh"
    ELSE "NARmedium"

classify_nar(nar_value) ==
    IF nar_value < 8 * NarUnit THEN "NARlow"
    ELSE IF nar_value > 16 * NarUnit THEN "NARhigh"
    ELSE "NARmedium"

\* Mutant: the lower bound of the Low grades dropped.
classify_trg_no_lower(trg_value) ==
    IF trg_value <= 2 THEN "TRGlow" ELSE "TRGhigh"

classify_trg(trg_value) ==
    IF 1 <= trg_value /\ trg_value <= 2 THEN "TRGlow" ELSE "TRGhigh"

\* Mutant: the TRG group tested first, so that (High, Low) scores 1.
determine_nar_trg_score_trg_first(nar_group, trg_group) ==
    IF trg_group = "TRGlow" THEN 1
    ELSE IF nar_group \in {"NARlow", "NARmedium"} THEN 2
    ELSE 3

determine_nar_trg_score(nar_group, trg_group) ==
    IF nar_group \in {"NARlow", "NARmedium"} /\ trg_group = "TRGlow" THEN 1
    ELSE IF nar_group \in {"NARlow", "NARmedium"} /\ trg_group = "TRGhigh" THEN 2
    ELSE 3

\* -------------------------------------------------------- model constants
\* Mutant: the table's weights in descending order.
BETA_NARTRG_descending == [s \in {1, 2, 3} |-> Hundredths(50 * (3 - s))]

BETA_NARTRG == [s \in {1, 2, 3} |-> Hundredths(50 * (s - 1))]
BETA_DIFF == Hundredths(40)
BETA_CA19 == Hundredths(56)
LP_BASE == Hundredths(-51)
S0_3YR == Hundredths(94)
S0_5YR == Hundredths(90)
\* The value line 109 gives LP_MAX_SCENARIO.
LP_MAX_SOURCE == Hundredths(141)
\* 220.0, the nominal top of the point scale.
POINT_TOP == 220 * Scale

\* The names the constants block (lines 93-109) binds.
ConstantNames ==
    {"BETA_NARTRG", "BETA_DIFF", "BETA_CA19", "LP_BASE", "S0_3YR", "S0_5YR",
     "LP_MAX_SCENARIO"}

\* Mutant: the default of the lookup 0.5 instead of 0.0.
BetaGet_default_half(nar_trg_score) ==
    IF nar_trg_score \in DOMAIN BETA_NARTRG THEN BETA_NARTRG[nar_trg_score]
    ELSE Hundredths(50)

\* BETA_NARTRG.get(nar_trg_score, 0.0)
BetaGet(nar_trg_score) ==
    IF nar_trg_score \in DOMAIN BETA_NARTRG THEN BETA_NARTRG[nar_trg_score]
    ELSE 0

\* Line 110.
PointScale(lp_max) == DivFix(POINT_TOP, lp_max - LP_BASE)

LinearPredictor(nar_trg_score, diff_is_poor, ca19_over_35) ==
    BetaGet(nar_trg_score)
        + (IF diff_is_poor THEN BETA_DIFF ELSE 0)
        + (IF ca19_over_35 THEN BETA_CA19 ELSE 0)

\* Mutant: the points also capped at 220.
FloorPoints_capped(points) ==
    IF points < 0 THEN 0 ELSE IF points > POINT_TOP THEN POINT_TOP ELSE points

\* points after the floor of lines 136-137.
FloorPoints(points) == IF points < 0 THEN 0 ELSE points

\* Mutant: LP_rel taken as LP_BASE - LP.
compute_cox_points_survival_swapped(nar_trg_score, diff_is_poor, ca19_over_35, point_scale) ==
    LET lp_patient == BetaGet(nar_trg_score)
                        + (IF diff_is_poor THEN BETA_DIFF ELSE 0)
                        + (IF ca19_over_35 THEN BETA_CA19 ELSE 0)
        lp_rel == LP_BASE - lp_patient
        points == IF MulFix(lp_rel, point_scale) < 0 THEN 0
                  ELSE MulFix(lp_rel, point_scale)
    IN  <<points, PowFix(S0_3YR, ExpFix(lp_rel)), PowFix(S0_5YR, ExpFix(lp_rel))>>

\* <<points, surv_3y, surv_5y>>, with point_scale the value of POINT_SCALE.
compute_cox_points_survival(nar_trg_score, diff_is_poor, ca19_over_35, point_scale) ==
    LET lp_patient == LinearPredictor(nar_trg_score, diff_is_poor, ca19_over_35)
        lp_rel == lp_patient - LP_BASE
        points == FloorPoints(MulFix(lp_rel, point_scale))
        surv_3y == PowFix(S0_3YR, ExpFix(lp_rel))
        surv_5y == PowFix(S0_5YR, ExpFix(lp_rel))
    IN  <<points, surv_3y, surv_5y>>

\* The globals a call reads, in the order it reads them, each with its line.
CoxReads(diff_is_poor, ca19_over_35) ==
    <<[name |-> "BETA_NARTRG", line |-> 128]>>
        \o (IF diff_is_poor THEN <<[name |-> "BETA_DIFF", line |-> 130]>> ELSE <<>>)
        \o (IF ca19_over_35 THEN <<[name |-> "BETA_CA19", line |-> 132]>> ELSE <<>>)
        \o <<[name |-> "LP_BASE", line |-> 134],
             [name |-> "POINT_SCALE", line |-> 135],
             [name |-> "S0_3YR", line |-> 140],
             [name |-> "S0_5YR", line |-> 141]>>

\* The line of the first read of an unbound global, 0 when there is none.
FirstUnbound(reads, bound) ==
    LET bad == {i \in DOMAIN reads : reads[i].name \notin bound}
    IN  IF bad = {} THEN 0
        ELSE reads[CHOOSE i \in bad : \A j \in bad : i <= j].line

\* ------------------------------------------------------------------ state
None == <<>>
Some(v) == <<v>>
Val(o) == o[1]

VARIABLES
    config,       \* the constants block as written: [names, lp_max]
    entry,        \* "script" (streamlit run) or "library" (imported)
    pc,
    globals,      \* the module globals bound so far
    POINT_SCALE,
    exc,          \* the exception that ended the process: <<type, line>>
    cT_choice, pT_choice, pN_choice, trg_choice, diff_choice, ca19_input,
    button,       \* the button was pressed for this script run
    nar_score, nar_group, trg_group, nar_trg_combined,
    diff_is_poor, ca19_over35,
    result,       \* what line 197 received: <<points, surv3, surv5>>
    call,         \* library use: the call in progress
    ret,          \* library use: what it returned
    prev          \* library use: the previous call and what it returned

widgets == <<cT_choice, pT_choice, pN_choice, trg_choice, diff_choice, ca19_input>>
locals == <<nar_score, nar_group, trg_group, nar_trg_combined, diff_is_poor,
            ca19_over35, result>>
module == <<config, entry, globals, POINT_SCALE>>
library == <<call, ret, prev>>
vars == <<config, entry, pc, globals, POINT_SCALE, exc, cT_choice, pT_choice,
          pN_choice, trg_choice, diff_choice, ca19_input, button, nar_score,
          nar_group, trg_group, nar_trg_combined, diff_is_poor, ca19_over35,
          result, call, ret, prev>>

\* The options of the select boxes.
CT_OPTIONS == {1, 2, 3, 4}
PT_OPTIONS == {0, 1, 2, 3, 4}
PN_OPTIONS == {0, 1, 2}
TRG_OPTIONS == {1, 2, 3, 4, 5}
DIFF_OPTIONS == {"Well", "Moderate", "Poor"}
\* 35.0, the CA19-9 cut-off, and the number input's step, in U/ml.
CA19_CUTOFF == 35
CA19_STEP == 1

SourceConfig == [names |-> ConstantNames, lp_max |-> LP_MAX_SOURCE]

NoCall == [fn |-> "none", args |-> <<>>]

\* Everything but config, entry and call: the state before the module loads.
Fresh ==
    /\ pc = "import"
    /\ globals = {}
    /\ POINT_SCALE = None
    /\ exc = None
    /\ cT_choice = 1 /\ pT_choice = 0 /\ pN_choice = 0
    /\ trg_choice = 3 /\ diff_choice = "Moderate" /\ ca19_input = 10
    /\ button = FALSE
    /\ nar_score = None /\ nar_group = None /\ trg_group = None
    /\ nar_trg_combined = None /\ diff_is_poor = None /\ ca19_over35 = None
    /\ result = None
    /\ ret = None
    /\ prev = None

Init ==
    /\ config = SourceConfig
    /\ entry = "script"
    /\ call = NoCall
    /\ Fresh

\* ------------------------------------------------------------ module load
\* Lines 25-110 and 207-208: bind the constants, derive POINT_SCALE, and
\* run main() when executed as a script.
Import ==
    /\ pc = "import"
    /\ IF ~({"LP_MAX_SCENARIO", "LP_BASE"} \subseteq config.names)
       THEN /\ pc' = "raised"
            /\ exc' = <<"NameError", 110>>
            /\ globals' = config.names
            /\ UNCHANGED POINT_SCALE
       ELSE IF config.lp_max - LP_BASE = 0
       THEN /\ pc' = "raised"
            /\ exc' = <<"ZeroDivisionError", 110>>
            /\ globals' = config.names
            /\ UNCHANGED POINT_SCALE
       ELSE /\ pc' = IF entry = "script" THEN "L164" ELSE "call"
            /\ exc' = None
            /\ globals' = config.names \cup {"POINT_SCALE"}
            /\ POINT_SCALE' = Some(PointScale(config.lp_max))
    /\ UNCHANGED <<config, entry, widgets, button, locals, library>>

\* ------------------------------------------------------------------- main
\* Lines 164-172.
RunStaging ==
    /\ pc = "L164"
    /\ nar_score' = Some(calculate_nar(cT_choice, pT_choice, pN_choice))
    /\ nar_group' = Some(classify_nar(Val(nar_score')))
    /\ pc' = "L175"
    /\ UNCHANGED <<module, exc, widgets, button, trg_group, nar_trg_combined,
                   diff_is_poor, ca19_over35, result, library>>

\* Lines 175-177.
RunTrg ==
    /\ pc = "L175"
    /\ trg_group' = Some(classify_trg(trg_choice))
    /\ pc' = "L180"
    /\ UNCHANGED <<module, exc, widgets, button, nar_score, nar_group,
                   nar_trg_combined, diff_is_poor, ca19_over35, result, library>>

\* Lines 180-181.
RunCombine ==
    /\ pc = "L180"
    /\ nar_trg_combined' = Some(determine_nar_trg_score(Val(nar_group), Val(trg_group)))
    /\ pc' = "L184"
    /\ UNCHANGED <<module, exc, widgets, button, nar_score, nar_group, trg_group,
                   diff_is_poor, ca19_over35, result, library>>

\* Lines 184-191.
RunCovariates ==
    /\ pc = "L184"
    /\ diff_is_poor' = Some(diff_choice = "Poor")
    /\ ca19_over35' = Some(ca19_input > CA19_CUTOFF)
    /\ pc' = "L194"
    /\ UNCHANGED <<module, exc, widgets, button, nar_score, nar_group, trg_group,
                   nar_trg_combined, result, library>>

\* Lines 194-205.
RunButton ==
    /\ pc = "L194"
    /\ IF ~button
       THEN /\ pc' = "idle"
            /\ UNCHANGED <<exc, result>>
       ELSE LET unbound == FirstUnbound(CoxReads(Val(diff_is_poor), Val(ca19_over35)),
                                        globals)
            IN  IF unbound # 0
                THEN /\ pc' = "raised"
                     /\ exc' = <<"NameError", unbound>>
                     /\ UNCHANGED result
                ELSE /\ pc' = "idle"
                     /\ result' = Some(compute_cox_points_survival(
                                          Val(nar_trg_combined), Val(diff_is_poor),
                                          Val(ca19_over35), Val(POINT_SCALE)))
                     /\ UNCHANGED exc
    /\ UNCHANGED <<module, widgets, button, nar_score, nar_group, trg_group,
                   nar_trg_combined, diff_is_poor, ca19_over35, library>>

\* A widget interaction reruns the script from the top with fresh locals.
Rerun(pressed) ==
    /\ pc' = "L164"
    /\ button' = pressed
    /\ nar_score' = None /\ nar_group' = None /\ trg_group' = None
    /\ nar_trg_combined' = None /\ diff_is_poor' = None /\ ca19_over35' = None
    /\ result' = None
    /\ UNCHANGED <<module, exc, library>>

SelectCT ==
    /\ pc = "idle"
    /\ \E v \in CT_OPTIONS \ {cT_choice} : cT_choice' = v
    /\ Rerun(FALSE)
    /\ UNCHANGED <<pT_choice, pN_choice, trg_choice, diff_choice, ca19_input>>

SelectPT ==
    /\ pc = "idle"
    /\ \E v \in PT_OPTIONS \ {pT_choice} : pT_choice' = v
    /\ Rerun(FALSE)
    /\ UNCHANGED <<cT_choice, pN_choice, trg_choice, diff_choice, ca19_input>>

SelectPN ==
    /\ pc = "idle"
    /\ \E v \in PN_OPTIONS \ {pN_choice} : pN_choice' = v
    /\ Rerun(FALSE)
    /\ UNCHANGED <<cT_choice, pT_choice, trg_choice, diff_choice, ca19_input>>

SelectTRG ==
    /\ pc = "idle"
    /\ \E v \in TRG_OPTIONS \ {trg_choice} : trg_choice' = v
    /\ Rerun(FALSE)
    /\ UNCHANGED <<cT_choice, pT_choice, pN_choice, diff_choice, ca19_input>>

SelectDiff ==
    /\ pc = "idle"
    /\ \E v \in DIFF_OPTIONS \ {diff_choice} : diff_choice' = v
    /\ Rerun(FALSE)
    /\ UNCHANGED <<cT_choice, pT_choice, pN_choice, trg_choice, ca19_input>>

\* The number input: min_value 0.0, step 1.0 (its plus and minus buttons).
InputCA19 ==
    /\ pc = "idle"
    /\ \E v \in {ca19_input - CA19_STEP, ca19_input + CA19_STEP} :
          /\ 0 <= v /\ v <= MaxCa19
          /\ ca19_input' = v
    /\ Rerun(FALSE)
    /\ UNCHANGED <<cT_choice, pT_choice, pN_choice, trg_choice, diff_choice>>

PressButton ==
    /\ pc = "idle"
    /\ Rerun(TRUE)
    /\ UNCHANGED widgets

Next ==
    \/ Import
    \/ RunStaging
    \/ RunTrg
    \/ RunCombine
    \/ RunCovariates
    \/ RunButton
    \/ SelectCT
    \/ SelectPT
    \/ SelectPN
    \/ SelectTRG
    \/ SelectDiff
    \/ InputCA19
    \/ PressButton

Spec == Init /\ [][Next]_vars

\* ------------------------------------------------------------ library use
\* The functions called directly by a caller that imported the module:
\* one call, and for compute_cox_points_survival a second one after it.
NAR_GROUPS == {"NARlow", "NARmedium", "NARhigh"}
TRG_GROUPS == {"TRGlow", "TRGhigh"}

ClassifyNarCalls ==
    {[fn |-> "classify_nar", args |-> <<Milli(s)>>] : s \in 0 .. MaxMilli}
ClassifyTrgCalls ==
    {[fn |-> "classify_trg", args |-> <<g>>] : g \in -MaxGrade .. MaxGrade}
DetermineCalls ==
    {[fn |-> "determine_nar_trg_score", args |-> <<n, t>>] :
        n \in NAR_GROUPS, t \in TRG_GROUPS}
CoxCalls ==
    {[fn |-> "compute_cox_points_survival", args |-> <<s, d, c>>] :
        s \in -MaxComposite .. MaxComposite, d \in BOOLEAN, c \in BOOLEAN}

InitCalls ==
    /\ config = SourceConfig
    /\ entry = "library"
    /\ call \in ClassifyNarCalls \cup ClassifyTrgCalls \cup DetermineCalls
                    \cup CoxCalls
    /\ Fresh

ApplyClassifyNar ==
    /\ pc = "call"
    /\ call.fn = "classify_nar"
    /\ ret' = Some(classify_nar(call.args[1]))
    /\ pc' = "returned"
    /\ UNCHANGED <<module, exc, widgets, button, locals, call, prev>>

ApplyClassifyTrg ==
    /\ pc = "call"
    /\ call.fn = "classify_trg"
    /\ ret' = Some(classify_trg(call.args[1]))
    /\ pc' = "returned"
    /\ UNCHANGED <<module, exc, widgets, button, locals, call, prev>>

ApplyDetermine ==
    /\ pc = "call"
    /\ call.fn = "determine_nar_trg_score"
    /\ ret' = Some(determine_nar_trg_score(call.args[1], call.args[2]))
    /\ pc' = "returned"
    /\ UNCHANGED <<module, exc, widgets, button, locals, call, prev>>

ApplyCox ==
    /\ pc = "call"
    /\ call.fn = "compute_cox_points_survival"
    /\ LET unbound == FirstUnbound(CoxReads(call.args[2], call.args[3]), globals)
       IN  IF unbound # 0
           THEN /\ pc' = "raised"
                /\ exc' = <<"NameError", unbound>>
                /\ UNCHANGED ret
           ELSE /\ pc' = "returned"
                /\ ret' = Some(compute_cox_points_survival(
                                  call.args[1], call.args[2], call.args[3],
                                  Val(POINT_SCALE)))
                /\ UNCHANGED exc
    /\ UNCHANGED <<module, widgets, button, locals, call, prev>>

CallCoxAgain ==
    /\ pc = "returned"
    /\ call.fn = "compute_cox_points_survival"
    /\ prev = None
    /\ prev' = Some([call |-> call, ret |-> Val(ret)])
    /\ \E c \in CoxCalls : call' = c
    /\ ret' = None
    /\ pc' = "call"
    /\ UNCHANGED <<module, exc, widgets, button, locals>>

NextCalls ==
    \/ Import
    \/ ApplyClassifyNar
    \/ ApplyClassifyTrg
    \/ ApplyDetermine
    \/ ApplyCox
    \/ CallCoxAgain

SpecCalls == InitCalls /\ [][NextCalls]_vars

\* ---------------------------------------------------------- configuration
\* The docstring (lines 19-22) has the user adjust the constants block.
\* SpecLoad starts the script on each block such an edit leaves: any of the
\* seven assignments may be absent, and LP_MAX_SCENARIO may equal LP_BASE.
Configs ==
    [names : SUBSET ConstantNames, lp_max : {LP_BASE, LP_MAX_SOURCE}]

ValidConfig ==
    /\ config.names = ConstantNames
    /\ config.lp_max # LP_BASE

InitLoad ==
    /\ config \in Configs
    /\ entry = "script"
    /\ call = NoCall
    /\ Fresh

NextLoad ==
    \/ Import
    \/ RunStaging
    \/ RunTrg
    \/ RunCombine
    \/ RunCovariates
    \/ RunButton
    \/ SelectDiff
    \/ PressButton

SpecLoad == InitLoad /\ [][NextLoad]_vars

\* ----------------------------------------------------------------- claims
Returned(fn) == pc = "returned" /\ call.fn = fn

Max(a, b) == IF a >= b THEN a ELSE b

\* C1: classify_nar returns Low iff the score is below 8.0, High iff it is
\* above 16.0 and Medium otherwise, for every score given in thousandths; so
\* 8.000 and 16.000 are Medium, 7.999 is Low and 16.001 is High.
C1_BoundaryExactness ==
    Returned("classify_nar") =>
        LET s == call.args[1]
            band == Val(ret)
        IN  /\ band \in NAR_GROUPS
            /\ band = "NARlow" <=> s < Milli(8000)
            /\ band = "NARhigh" <=> s > Milli(16000)
            /\ band = "NARmedium" <=> (Milli(8000) <= s /\ s <= Milli(16000))
            /\ s = Milli(7999) => band = "NARlow"
            /\ s = Milli(8000) => band = "NARmedium"
            /\ s = Milli(16000) => band = "NARmedium"
            /\ s = Milli(16001) => band = "NARhigh"

\* classify_nar has returned Medium for the score 8.000.
C1_Witness ==
    /\ Returned("classify_nar")
    /\ call.args[1] = Milli(8000)
    /\ ret = Some("NARmedium")

\* The table of section 4.4.
CompositeTable ==
    [p \in NAR_GROUPS \X TRG_GROUPS |->
        CASE p = <<"NARlow", "TRGlow">> -> 1
          [] p = <<"NARmedium", "TRGlow">> -> 1
          [] p = <<"NARlow", "TRGhigh">> -> 2
          [] p = <<"NARmedium", "TRGhigh">> -> 2
          [] p = <<"NARhigh", "TRGlow">> -> 3
          [] p = <<"NARhigh", "TRGhigh">> -> 3]

\* C2: determine_nar_trg_score returns, for each of the six band pairs, the
\* value of the table, which is always one of 1, 2, 3.
C2_CompositeTotality ==
    Returned("determine_nar_trg_score") =>
        /\ Val(ret) \in {1, 2, 3}
        /\ Val(ret) = CompositeTable[<<call.args[1], call.args[2]>>]

\* determine_nar_trg_score has returned 3 for (High, Low).
C2_Witness ==
    /\ Returned("determine_nar_trg_score")
    /\ call.args = <<"NARhigh", "TRGlow">>
    /\ ret = Some(3)

\* C3: in main, once the composite score is set, it is 3 exactly when
\* (5*pN - 3*(cT-ypT) + 12)^2 / 9.61 > 16.0, whatever the TRG grade, and
\* otherwise 1 for grades 1 and 2 and 2 for the other grades; (cT=3, ypT=0,
\* pN=0) has the numerator 3, the score 9/9.61 = 900/961 and the band Low, and
\* (cT=1, ypT=0, pN=2, TRG=4) has the numerator 19, the score 361/9.61 =
\* 36100/961, the band High and the composite score 3.
C3_StagingPipeline ==
    nar_trg_combined # None =>
        LET n == 5 * pN_choice - 3 * (cT_choice - pT_choice) + 12
            high == n * n * 100 > 16 * NAR_DIVISOR
        IN  /\ Val(nar_trg_combined) =
                   (IF high THEN 3 ELSE IF trg_choice \in {1, 2} THEN 1 ELSE 2)
            /\ (cT_choice = 3 /\ pT_choice = 0 /\ pN_choice = 0) =>
                   /\ n = 3
                   /\ Val(nar_score) = 900 * (NarUnit \div NAR_DIVISOR)
                   /\ nar_group = Some("NARlow")
            /\ (cT_choice = 1 /\ pT_choice = 0 /\ pN_choice = 2 /\ trg_choice = 4) =>
                   /\ n = 19
                   /\ Val(nar_score) = 36100 * (NarUnit \div NAR_DIVISOR)
                   /\ nar_group = Some("NARhigh")
                   /\ nar_trg_combined = Some(3)

\* main has computed the composite score 3 for cT=1, ypT=0, pN=2, TRG=4.
C3_Witness ==
    /\ cT_choice = 1 /\ pT_choice = 0 /\ pN_choice = 2 /\ trg_choice = 4
    /\ nar_trg_combined = Some(3)

\* LP_rel * POINT_SCALE of a call, from the constants of the source.
Product(nar_trg_score, d, c) ==
    MulFix(LinearPredictor(nar_trg_score, d, c) - LP_BASE,
           DivFix(POINT_TOP, LP_MAX_SOURCE - LP_BASE))

\* C4: the points compute_cox_points_survival returns are
\* max(LP_rel * POINT_SCALE, 0.0): never negative, and not capped above.
C4_PointsFloorOnly ==
    Returned("compute_cox_points_survival") =>
        LET product == Product(call.args[1], call.args[2], call.args[3])
        IN  /\ Val(ret)[1] = Max(product, 0)
            /\ Val(ret)[1] >= 0

\* compute_cox_points_survival has returned more than 220 points.
C4_Witness ==
    /\ Returned("compute_cox_points_survival")
    /\ Val(ret)[1] > POINT_TOP

\* main has called compute_cox_points_survival(1, False, False).
BaselineCall ==
    /\ result # None
    /\ nar_trg_combined = Some(1)
    /\ diff_is_poor = Some(FALSE)
    /\ ca19_over35 = Some(FALSE)

\* C5 as stated: for composite score 1 with both covariates false, LP is 0,
\* LP_rel = LP - LP_BASE is negative and the points are clamped to 0.0.
C5_ClampedToZero ==
    BaselineCall =>
        /\ LinearPredictor(1, FALSE, FALSE) = 0
        /\ LinearPredictor(1, FALSE, FALSE) - LP_BASE < 0
        /\ Val(result)[1] = 0

\* C5: for composite score 1 with both covariates false, LP is 0,
\* LP_rel = 0 - (-0.51) = 0.51 is positive, and the points are
\* 0.51 * POINT_SCALE (58.43...), not clamped.
C5_BaselinePoints ==
    BaselineCall =>
        /\ LinearPredictor(1, FALSE, FALSE) = 0
        /\ LinearPredictor(1, FALSE, FALSE) - LP_BASE = Hundredths(51)
        /\ Val(result)[1] = MulFix(Hundredths(51), Val(POINT_SCALE))
        /\ Val(result)[1] > Hundredths(5843)
        /\ Val(result)[1] < Hundredths(5844)

\* main has shown the points of composite score 1 with both covariates false.
C5_Witness ==
    /\ BaselineCall
    /\ pc = "idle"
    /\ Val(result)[1] > 0

\* Two successive calls with the same covariates and composite scores
\* a <= b, both in {1,2,3}.
OrderedPair ==
    /\ Returned("compute_cox_points_survival")
    /\ prev # None
    /\ Val(prev).call.args[1] \in {1, 2, 3}
    /\ call.args[1] \in {1, 2, 3}
    /\ Val(prev).call.args[1] <= call.args[1]
    /\ Val(prev).call.args[2] = call.args[2]
    /\ Val(prev).call.args[3] = call.args[3]

\* C6: with the covariates fixed and composite scores a <= b, the linear
\* predictor and the points of b are at least those of a, and both survival
\* probabilities of b are at most those of a.
C6_Monotonicity ==
    OrderedPair =>
        LET a == Val(prev).call.args
            b == call.args
            ra == Val(prev).ret
            rb == Val(ret)
        IN  /\ LinearPredictor(b[1], b[2], b[3]) >= LinearPredictor(a[1], a[2], a[3])
            /\ rb[1] >= ra[1]
            /\ rb[2] <= ra[2]
            /\ rb[3] <= ra[3]

\* Composite score 1 and then 3 with the same covariates: more points, less
\* survival.
C6_Witness ==
    /\ OrderedPair
    /\ Val(prev).call.args[1] = 1
    /\ call.args[1] = 3
    /\ Val(ret)[1] > Val(prev).ret[1]
    /\ Val(ret)[2] < Val(prev).ret[2]

\* C7: classify_trg returns Low iff the grade is 1 or 2 and High for every
\* other integer grade, in or out of the scale, and never raises.
C7_TrgPolicy ==
    /\ call.fn = "classify_trg" => pc # "raised"
    /\ Returned("classify_trg") =>
           /\ Val(ret) \in TRG_GROUPS
           /\ Val(ret) = "TRGlow" <=> call.args[1] \in {1, 2}
           /\ call.args[1] \in {3, 4, 5, 0, -1, 6} => Val(ret) = "TRGhigh"

\* classify_trg has returned High for the out-of-scale grade 0.
C7_Witness ==
    /\ Returned("classify_trg")
    /\ call.args[1] = 0
    /\ ret = Some("TRGhigh")

C9_SurvivalBounds ==
    Returned("compute_cox_points_survival") =>
        /\ 0 < Val(ret)[2] /\ Val(ret)[2] <= Scale
        /\ 0 < Val(ret)[3] /\ Val(ret)[3] <= Scale

\* compute_cox_points_survival has returned for composite score 3 with both
\* covariates true, the largest LP_rel.
C9_Witness ==
    /\ Returned("compute_cox_points_survival")
    /\ call.args = <<3, TRUE, TRUE>>
    /\ Val(ret)[3] < Val(ret)[2]
    /\ Val(ret)[2] < Scale

\* A call with composite score 1 and then one with a composite score outside
\* {1,2,3} and the same covariates.
OutOfRangeAfterOne ==
    /\ Returned("compute_cox_points_survival")
    /\ prev # None
    /\ Val(prev).call.args[1] = 1
    /\ call.args[1] \notin {1, 2, 3}
    /\ Val(prev).call.args[2] = call.args[2]
    /\ Val(prev).call.args[3] = call.args[3]

\* C10: compute_cox_points_survival never raises on a composite score
\* outside {1,2,3}, and returns for it what it returns for composite score 1
\* with the same covariates.
C10_UnknownScoreAsOne ==
    /\ (call.fn = "compute_cox_points_survival" /\ call.args[1] \notin {1, 2, 3})
           => pc # "raised"
    /\ OutOfRangeAfterOne => Val(ret) = Val(prev).ret

\* Composite score 1 and then 4, both covariates true.
C10_Witness ==
    /\ OutOfRangeAfterOne
    /\ call.args = <<4, TRUE, TRUE>>

====
